---- MODULE Spec2Model ----
(***************************************************************************)
(* Model of the country-data cleaning stage (lambda_handler) and of the    *)
(* completion watcher (main) of the airflow_aws_project repository.        *)
(*                                                                         *)
(* Text is a sequence of one-character strings, so that strip() and        *)
(* title() are computed character by character as Python computes them.    *)
(* A JSON value is a record [t, s, n]: its type tag, its text (for a       *)
(* string) and its number (for a number or a boolean).                     *)
(***************************************************************************)
EXTENDS Integers, Sequences, FiniteSets, TLC

-----------------------------------------------------------------------------
(* Bounds of the model *)

\* longest payload (number of raw records) of the batch specification
MaxRecords == 3
\* number of times the watcher is called in one behaviour
MaxCalls == 2

-----------------------------------------------------------------------------
(* Python text operations *)

LowerLetters == <<"a","b","c","d","e","f","g","h","i","j","k","l","m",
                  "n","o","p","q","r","s","t","u","v","w","x","y","z">>
UpperLetters == <<"A","B","C","D","E","F","G","H","I","J","K","L","M",
                  "N","O","P","Q","R","S","T","U","V","W","X","Y","Z">>

IsLower(c) == \E k \in 1..Len(LowerLetters) : LowerLetters[k] = c
IsUpper(c) == \E k \in 1..Len(UpperLetters) : UpperLetters[k] = c
IsCased(c) == IsLower(c) \/ IsUpper(c)
IsSpace(c) == c = " "

ToUpper(c) ==
    IF IsLower(c)
    THEN UpperLetters[CHOOSE k \in 1..Len(LowerLetters) : LowerLetters[k] = c]
    ELSE c
ToLower(c) ==
    IF IsUpper(c)
    THEN LowerLetters[CHOOSE k \in 1..Len(UpperLetters) : UpperLetters[k] = c]
    ELSE c

\* str.strip(): leading and trailing whitespace removed
RECURSIVE LStrip(_)
LStrip(s) == IF s # <<>> /\ IsSpace(Head(s)) THEN LStrip(Tail(s)) ELSE s
RECURSIVE RStrip(_)
RStrip(s) ==
    IF s # <<>> /\ IsSpace(s[Len(s)]) THEN RStrip(SubSeq(s, 1, Len(s) - 1)) ELSE s
Strip(s) == RStrip(LStrip(s))

\* str.title(): a cased character is upper-cased when the character before it
\* is not cased and lower-cased when it is
Title(s) ==
    [k \in 1..Len(s) |->
        IF k > 1 /\ IsCased(s[k - 1]) THEN ToLower(s[k]) ELSE ToUpper(s[k])]

\* str(n) of an integer: its decimal digits
Digits == <<"0","1","2","3","4","5","6","7","8","9">>
RECURSIVE NatText(_)
NatText(n) ==
    IF n < 10 THEN <<Digits[n + 1]>> ELSE NatText(n \div 10) \o <<Digits[(n % 10) + 1]>>
IntText(n) == IF n < 0 THEN <<"-">> \o NatText(0 - n) ELSE NatText(n)

-----------------------------------------------------------------------------
(* JSON values *)

JVal(t, s, n) == [t |-> t, s |-> s, n |-> n]
Absent == JVal("absent", <<>>, 0)
JNull == JVal("null", <<>>, 0)
JStr(s) == JVal("str", s, 0)
JNum(n) == JVal("num", <<>>, n)
JBool(b) == JVal("bool", <<>>, IF b THEN 1 ELSE 0)
\* a list is modelled by the text of its elements (capital: a list of strings)
JList(l) == [t |-> "list", s |-> <<>>, n |-> 0, l |-> l]
NoList(v) == [t |-> v.t, s |-> v.s, n |-> v.n, l |-> <<>>]

\* the literals of the cleaning loop
Unknown == <<"U","n","k","n","o","w","n">>
NA == <<"N","/","A">>

\* str(x) of a JSON value
PyStr(v) ==
    CASE v.t = "str" -> v.s
      [] v.t = "num" -> IntText(v.n)
      [] v.t = "bool" -> IF v.n = 1 THEN <<"T","r","u","e">> ELSE <<"F","a","l","s","e">>
      [] OTHER -> <<"N","o","n","e">>

\* truth value of a JSON value
Truthy(v) ==
    CASE v.t = "str" -> v.s # <<>>
      [] v.t \in {"num", "bool"} -> v.n # 0
      [] v.t = "list" -> v.l # <<>>
      [] OTHER -> FALSE

-----------------------------------------------------------------------------
(* Raw records *)

\* the value under 'name': a mapping with an optional 'common', or a scalar
NameVal(v, common) == [t |-> v.t, s |-> v.s, n |-> v.n, common |-> common]
NameDict(common) == NameVal(JVal("dict", <<>>, 0), common)
NameScalar(v) == NameVal(v, Absent)

\* one element of the payload: a mapping with the five fields (each possibly
\* absent), or a scalar (t is then not "dict" and the fields are unused)
Record(name, population, region, area, capital) ==
    [t |-> "dict", s |-> <<>>, n |-> 0, name |-> name, population |-> population,
     region |-> region, area |-> area, capital |-> capital]
Scalar(v) ==
    [t |-> v.t, s |-> v.s, n |-> v.n, name |-> NameScalar(Absent), population |-> Absent,
     region |-> Absent, area |-> Absent, capital |-> NoList(Absent)]

\* a row of cleaned_data
Row(name, capital, population, area, region) ==
    [Country |-> name, Capital |-> capital, Population |-> population,
     Area |-> area, Region |-> region]
NoRow == Row(<<>>, Absent, Absent, Absent, <<>>)

-----------------------------------------------------------------------------
(* The body of the cleaning loop, statement by statement *)

\* country.get(...) raises AttributeError unless country is a mapping
GetRaises(country) == country.t # "dict"

\* name_obj = country.get('name', {})
NameObj(country) ==
    IF country.name.t = "absent" THEN NameDict(Absent) ELSE country.name

\* name_obj.get('common', '') of a mapping
CommonOf(name_obj) == IF name_obj.common.t = "absent" THEN JStr(<<>>) ELSE name_obj.common

\* .strip() raises AttributeError on anything that is not a string
NameRaises(country) ==
    NameObj(country).t = "dict" /\ CommonOf(NameObj(country)).t # "str"

\* name: the common name of a mapping, else str() of the value; stripped, title-cased
NameOf(country) ==
    IF NameObj(country).t = "dict"
    THEN Title(Strip(CommonOf(NameObj(country)).s))
    ELSE Title(Strip(PyStr(NameObj(country))))

\* population = country.get('population', 0)
PopulationOf(country) ==
    IF country.population.t = "absent" THEN JNum(0) ELSE country.population

\* region = country.get('region', 'Unknown').strip().title()
RegionRaises(country) == country.region.t \notin {"absent", "str"}
RegionOf(country) ==
    IF country.region.t = "absent" THEN Title(Strip(Unknown))
    ELSE Title(Strip(country.region.s))

\* area = country.get('area', 0);  'Area': area if area else 'N/A'
AreaOf(country) == IF country.area.t = "absent" THEN JNum(0) ELSE country.area
AreaCell(country) == IF Truthy(AreaOf(country)) THEN AreaOf(country) ELSE JStr(NA)

\* capital_list = country.get('capital', []);
\* capital = capital_list[0] if capital_list else 'N/A'
CapitalList(country) ==
    IF country.capital.t = "absent" THEN JList(<<>>) ELSE country.capital
CapitalRaises(country) ==
    Truthy(CapitalList(country)) /\ CapitalList(country).t \notin {"list", "str"}
CapitalOf(country) ==
    IF ~Truthy(CapitalList(country)) THEN JStr(NA)
    ELSE IF CapitalList(country).t = "list" THEN JStr(CapitalList(country).l[1])
    ELSE JStr(<<CapitalList(country).s[1]>>)

\* the comparison written population >= 0
PositiveOrZero(population) == population.n >= 0

\* population > 0 raises TypeError unless population is a number
Comparable(population) == population.t \in {"num", "bool"}
Positive(population) == population.n > 0

\* if name and population > 0: the comparison is evaluated only for a
\* non-empty name
IncludeRaises(name, population) == name # <<>> /\ ~Comparable(population)
Include(name, population) == name # <<>> /\ Positive(population)

\* what one pass of the loop body does with a record: "append" its row,
\* "skip" it (else branch) or "except" (the inner handler)
Outcome(country) ==
    IF \/ GetRaises(country)
       \/ NameRaises(country)
       \/ RegionRaises(country)
       \/ CapitalRaises(country)
       \/ IncludeRaises(NameOf(country), PopulationOf(country))
    THEN [kind |-> "except", row |-> NoRow]
    ELSE IF Include(NameOf(country), PopulationOf(country))
    THEN [kind |-> "append",
          row |-> Row(NameOf(country), CapitalOf(country), PopulationOf(country),
                      AreaCell(country), RegionOf(country))]
    ELSE [kind |-> "skip", row |-> NoRow]

-----------------------------------------------------------------------------
(* Object keys, payloads and the two buckets *)

\* a key is text; the keys events carry are URL-encoded
CountriesKey ==
    <<"r","a","w","/","c","o","u","n","t","r","i","e","s","_","d","a","t","a",
      ".","j","s","o","n">>
\* "raw/x+y%20z.JSON"
EncodedKey == <<"r","a","w","/","x","+","y","%","2","0","z",".","J","S","O","N">>
EventKeys == {CountriesKey, EncodedKey}

\* the escapes of the keys above: %XX is the character of code XX
Unescaped(h1, h2) ==
    CASE <<h1, h2>> = <<"2", "0">> -> " "
      [] <<h1, h2>> = <<"2", "B">> -> "+"
      [] <<h1, h2>> = <<"2", "F">> -> "/"
      [] <<h1, h2>> = <<"2", "E">> -> "."
      [] OTHER -> "%"
IsEscape(h1, h2) == <<h1, h2>> \in {<<"2", "0">>, <<"2", "B">>, <<"2", "F">>, <<"2", "E">>}

\* urllib.parse.unquote_plus: '+' is a space, then %XX is decoded
RECURSIVE UnquotePlus(_)
UnquotePlus(s) ==
    IF s = <<>> THEN <<>>
    ELSE IF Head(s) = "+" THEN <<" ">> \o UnquotePlus(Tail(s))
    ELSE IF Head(s) = "%" /\ Len(s) >= 3 /\ IsEscape(s[2], s[3])
    THEN <<Unescaped(s[2], s[3])>> \o UnquotePlus(SubSeq(s, 4, Len(s)))
    ELSE <<Head(s)>> \o UnquotePlus(Tail(s))

\* str.rfind(c), 1-based: 0 when c does not occur
LastIndex(s, c) ==
    IF \E k \in 1..Len(s) : s[k] = c
    THEN CHOOSE k \in 1..Len(s) : s[k] = c /\ \A j \in (k + 1)..Len(s) : s[j] # c
    ELSE 0

\* os.path.basename: what follows the last '/'
Basename(path) == SubSeq(path, LastIndex(path, "/") + 1, Len(path))

\* os.path.splitext(name)[0]: the name up to its last '.', unless only dots
\* come before that '.'
SplitextRoot(name) ==
    IF \E k \in 1..(LastIndex(name, ".") - 1) : name[k] # "."
    THEN SubSeq(name, 1, LastIndex(name, ".") - 1)
    ELSE name

\* dest_key = f"cleaned/{os.path.splitext(os.path.basename(source_key))[0]}.csv"
DestKeyOf(source_key) ==
    <<"c","l","e","a","n","e","d","/">> \o SplitextRoot(Basename(source_key))
    \o <<".","c","s","v">>
SourceKeys == {UnquotePlus(k) : k \in EventKeys}
DestKeys == {DestKeyOf(k) : k \in SourceKeys}

\* the decoded payload: its JSON type and what iterating it yields (the
\* elements of a list, the keys of an object, the characters of a string)
Payload(t, items) == [t |-> t, items |-> items]
\* len(raw_data) raises TypeError for a number or null
HasLen(raw) == raw.t \in {"list", "dict", "str"}

\* an object of the source bucket: absent, or a body that decodes or not
SourceObject(present, decodes, json) ==
    [present |-> present, decodes |-> decodes, json |-> json]
NoPayload == Payload("null", <<>>)
MissingObject == SourceObject(FALSE, FALSE, NoPayload)
GarbledObject == SourceObject(TRUE, FALSE, NoPayload)
JsonObject(json) == SourceObject(TRUE, TRUE, json)

\* an object of the destination bucket: absent, or the CSV that was put
NoCsv == [present |-> FALSE, header |-> <<>>, rows |-> <<>>]

\* csv.DictWriter(fieldnames=...).writeheader()/writerows(): the header, then
\* one line per row with the cells in the order of fieldnames
fieldnames == <<"Country", "Capital", "Population", "Area", "Region">>
CsvOf(rows) == [present |-> TRUE, header |-> fieldnames, rows |-> rows]

\* the event: event['Records'][0]['s3']['object']['key'], when it is there
Event(ok, key) == [ok |-> ok, key |-> key]

\* the value lambda_handler returns
Response(status, processed, skipped_count) ==
    [statusCode |-> status, records_processed |-> processed,
     records_skipped |-> skipped_count]
NoResponse == Response(0, 0, 0)

-----------------------------------------------------------------------------
(* State *)

VARIABLES
    \* the cleaning stage (lambda_handler)
    event,          \* the trigger of this invocation
    source,         \* source bucket: key -> object
    dest,           \* destination bucket: key -> object
    pc,             \* Idle, Reading, Transforming, Writing, Except, Succeeded, Failed
    source_key, dest_key, raw_data, cleaned_data, skipped,
    idx,            \* position of the for loop in raw_data (1-based)
    csv_buffer,     \* the serialized output
    exc,            \* the exception on its way to the outer handler
    response,       \* the returned value
    ops,            \* the object-store calls of this invocation, in order
    \* the completion watcher (main)
    wpc,            \* idle, test, head, sleep, Completed, TimedOut, Error
    elapsed_time,
    polls,          \* head_object calls of the current call of main
    lastHead,       \* outcome of the latest head_object: none, found, notfound, error
    calls,          \* calls of main so far
    existedAtCall,  \* the expected object existed when the current call began
    availAt         \* elapsed_time when the expected object became available
                    \* during the current call (-1: not yet)

hvars == <<event, source, dest, pc, source_key, dest_key, raw_data, cleaned_data,
           skipped, idx, csv_buffer, exc, response, ops>>
wvars == <<wpc, elapsed_time, polls, lastHead, calls, existedAtCall>>
vars == <<hvars, wvars, availAt>>

-----------------------------------------------------------------------------
(* Inputs *)

wakanda == <<"w","a","k","a","n","d","a">>
africa == <<"a","f","r","i","c","a">>
abc == <<"a","b","c">>

\* the record of the specification's round trip, and variations of it
Wakanda == Record(NameDict(JStr(wakanda)), JNum(1000), JStr(africa), Absent, NoList(Absent))
CoreRecords ==
    { Wakanda,
      \* a bare-string name, an area and a capital
      Record(NameScalar(JStr(<<" ","n","e","w"," ","i","s","l","E"," ">>)), JNum(5),
             Absent, JNum(7), JList(<<abc>>)),
      \* population is the string "abc"
      Record(NameDict(JStr(wakanda)), JStr(abc), JStr(africa), Absent, NoList(Absent)),
      \* population 0 and population absent
      Record(NameDict(JStr(wakanda)), JNum(0), JStr(africa), Absent, NoList(Absent)),
      Record(NameDict(JStr(abc)), Absent, Absent, Absent, NoList(Absent)),
      \* a name that strips to nothing
      Record(NameDict(JStr(<<" "," ">>)), JNum(1000), JStr(africa), Absent, NoList(Absent)),
      \* a negative population with a region that is no string
      Record(NameDict(JStr(abc)), JNum(-1), JNum(3), Absent, NoList(Absent)),
      \* an element that is no mapping
      Scalar(JNum(42)) }

SeqsUpTo(S, n) == UNION { [1..k -> S] : k \in 0..n }

\* what the source object may decode to: an array of records, or a JSON
\* object (iterating yields its keys), string (its characters), number, null
BatchPayloads ==
    { Payload("list", items) : items \in SeqsUpTo(CoreRecords, MaxRecords) }
    \cup { Payload("dict", <<Scalar(JStr(<<"m","s","g">>)), Scalar(JStr(abc))>>),
           Payload("dict", <<>>),
           Payload("str", <<Scalar(JStr(<<"a">>)), Scalar(JStr(<<"b">>))>>),
           Payload("num", <<>>),
           Payload("null", <<>>) }
\* a trigger and the source object it finds: <<event, object>>
GoodEvent == Event(TRUE, CountriesKey)
BadEvent == Event(FALSE, CountriesKey)
FailingTriggers ==
    { <<BadEvent, MissingObject>>, <<GoodEvent, MissingObject>>,
      <<GoodEvent, GarbledObject>> }
BatchTriggers ==
    FailingTriggers \cup { <<GoodEvent, JsonObject(p)>> : p \in BatchPayloads }

-----------------------------------------------------------------------------
(* The cleaning stage: lambda_handler *)

NoKey == <<>>
Exceptions == {"KeyError", "NoSuchKey", "ClientError", "JSONDecodeError", "TypeError"}

\* an outer handler written for the event's KeyError alone
CatchesKeyErrorOnly(e) == e = "KeyError"

\* except Exception as e: every exception of the try block is caught
Catches(e) == e \in Exceptions

\* rows inserted at the front, and an inner handler that forgets to count
NextCleanedPrepend(cleaned, o) == IF o.kind = "append" THEN <<o.row>> \o cleaned ELSE cleaned
NextSkippedIgnoringErrors(count, o) == IF o.kind = "skip" THEN count + 1 ELSE count

\* the accumulators after one pass of the loop body
NextCleaned(cleaned, o) == IF o.kind = "append" THEN Append(cleaned, o.row) ELSE cleaned
NextSkipped(count, o) == IF o.kind = "append" THEN count ELSE count + 1

\* the loop goes on while elements are left
LoopRunning(i, raw) == i <= Len(raw.items)

HandlerIdle(triggers) ==
    /\ \E tr \in triggers :
           /\ event = tr[1]
           /\ source = [k \in SourceKeys |->
                          IF k = UnquotePlus(tr[1].key) THEN tr[2] ELSE MissingObject]
    /\ pc = "Idle"
    /\ source_key = NoKey
    /\ dest_key = NoKey
    /\ raw_data = NoPayload
    /\ cleaned_data = <<>>
    /\ skipped = 0
    /\ idx = 1
    /\ csv_buffer = NoCsv
    /\ exc = "none"
    /\ response = NoResponse
    /\ ops = <<>>

\* a failing step that is tried again instead of reaching the outer handler
RaiseRetry(e) == pc' = pc /\ exc' = e
\* an exception of the try block reaches the outer handler (line 109)
Raise(e) == pc' = "Except" /\ exc' = e

\* lines 19-32: environment, event, keys
Invoke ==
    /\ pc = "Idle"
    /\ \/ /\ ~event.ok
          /\ Raise("KeyError")
          /\ UNCHANGED <<source_key, dest_key>>
       \/ /\ event.ok
          /\ source_key' = UnquotePlus(event.key)
          /\ dest_key' = DestKeyOf(UnquotePlus(event.key))
          /\ pc' = "Reading"
          /\ exc' = exc
    /\ UNCHANGED <<event, source, dest, raw_data, cleaned_data, skipped, idx,
                   csv_buffer, response, ops, wvars, availAt>>

\* lines 35-42: get_object, decode, len(), the empty accumulators
ReadSource ==
    /\ pc = "Reading"
    /\ \/ /\ ~source[source_key].present
          /\ ops' = Append(ops, [op |-> "get", ok |-> FALSE])
          /\ Raise("NoSuchKey")
          /\ UNCHANGED raw_data
       \/ /\ ops' = Append(ops, [op |-> "get", ok |-> FALSE])
          /\ Raise("ClientError")
          /\ UNCHANGED raw_data
       \/ /\ source[source_key].present
          /\ ~source[source_key].decodes
          /\ ops' = Append(ops, [op |-> "get", ok |-> TRUE])
          /\ Raise("JSONDecodeError")
          /\ UNCHANGED raw_data
       \/ /\ source[source_key].present
          /\ source[source_key].decodes
          /\ ~HasLen(source[source_key].json)
          /\ ops' = Append(ops, [op |-> "get", ok |-> TRUE])
          /\ raw_data' = source[source_key].json
          /\ Raise("TypeError")
       \/ /\ source[source_key].present
          /\ source[source_key].decodes
          /\ HasLen(source[source_key].json)
          /\ ops' = Append(ops, [op |-> "get", ok |-> TRUE])
          /\ raw_data' = source[source_key].json
          /\ pc' = "Transforming"
          /\ exc' = exc
    /\ cleaned_data' = <<>>
    /\ skipped' = 0
    /\ idx' = 1
    /\ UNCHANGED <<event, source, dest, source_key, dest_key, csv_buffer, response,
                   wvars, availAt>>

\* lines 44-77: one pass of the for loop
CleanRecord ==
    /\ pc = "Transforming"
    /\ LoopRunning(idx, raw_data)
    /\ cleaned_data' = NextCleaned(cleaned_data, Outcome(raw_data.items[idx]))
    /\ skipped' = NextSkipped(skipped, Outcome(raw_data.items[idx]))
    /\ idx' = idx + 1
    /\ UNCHANGED <<event, source, dest, pc, source_key, dest_key, raw_data, csv_buffer,
                   exc, response, ops, wvars, availAt>>

\* lines 79-86: the loop is over, the rows are serialized
WriteCsv ==
    /\ pc = "Transforming"
    /\ ~LoopRunning(idx, raw_data)
    /\ csv_buffer' = CsvOf(cleaned_data)
    /\ pc' = "Writing"
    /\ UNCHANGED <<event, source, dest, source_key, dest_key, raw_data, cleaned_data,
                   skipped, idx, exc, response, ops, wvars, availAt>>

\* the body of the 200 response
SuccessResponse(cleaned, count) == Response(200, Len(cleaned), count)

\* the watcher's constants (main)
max_wait_time == 300
check_interval == 10
ExpectedKey ==
    <<"c","l","e","a","n","e","d","/","c","o","u","n","t","r","i","e","s","_","d","a","t","a",
      ".","c","s","v">>

Exists(store, key) == store[key].present
\* head_object asked for another key
HeadFindsOtherKey(store) == Exists(store, DestKeyOf(UnquotePlus(EncodedKey)))

\* s3.head_object(Bucket=DEST_BUCKET, Key=dest_key) returns
HeadFinds(store) == Exists(store, ExpectedKey)
WatcherRunning == wpc \in {"test", "head", "sleep"}
WatcherEnded == wpc \in {"Completed", "TimedOut", "Error"}

\* lines 89-107: put_object, then the 200 response
PutObject ==
    /\ pc = "Writing"
    /\ \/ /\ dest' = [dest EXCEPT ![dest_key] = csv_buffer]
          /\ ops' = Append(ops, [op |-> "put", ok |-> TRUE])
          /\ response' = SuccessResponse(cleaned_data, skipped)
          /\ pc' = "Succeeded"
          /\ exc' = exc
          /\ availAt' = IF /\ dest_key = ExpectedKey
                           /\ ~dest[ExpectedKey].present
                           /\ WatcherRunning
                        THEN elapsed_time ELSE availAt
       \/ /\ ops' = Append(ops, [op |-> "put", ok |-> FALSE])
          /\ Raise("ClientError")
          /\ UNCHANGED <<dest, response, availAt>>
    /\ UNCHANGED <<event, source, source_key, dest_key, raw_data, cleaned_data, skipped,
                   idx, csv_buffer, wvars>>

\* lines 109-114: the outer handler turns the exception into the 500 response
HandleException ==
    /\ pc = "Except"
    /\ IF Catches(exc)
       THEN /\ response' = Response(500, 0, 0)
            /\ pc' = "Failed"
       ELSE /\ response' = response
            /\ pc' = "Raised"
    /\ UNCHANGED <<event, source, dest, source_key, dest_key, raw_data, cleaned_data,
                   skipped, idx, csv_buffer, exc, ops, wvars, availAt>>

HandlerNext == Invoke \/ ReadSource \/ CleanRecord \/ WriteCsv \/ PutObject \/ HandleException

-----------------------------------------------------------------------------
(* The completion watcher: main *)

WatcherIdle ==
    /\ wpc = "idle"
    /\ elapsed_time = 0
    /\ polls = 0
    /\ lastHead = "none"
    /\ calls = 0
    /\ existedAtCall = FALSE
    /\ availAt = -1

\* the loop test written with <=
LoopConditionInclusive(elapsed) == elapsed <= max_wait_time

\* while elapsed_time < max_wait_time
LoopCondition(elapsed) == elapsed < max_wait_time

\* every failure of head_object taken for 'not there yet'
AfterHeadSwallowing(outcome) == IF outcome = "found" THEN "Completed" ELSE "sleep"

\* where the outcome of head_object leads: return True, the NoSuchKey handler,
\* or the outer handler that re-raises
AfterHead(outcome) ==
    CASE outcome = "found" -> "Completed"
      [] outcome = "notfound" -> "sleep"
      [] OTHER -> "Error"

\* elapsed_time += check_interval
AfterSleep(elapsed) == elapsed + check_interval

\* lines 9-32: a call of main
WatcherCall ==
    /\ wpc = "idle" \/ WatcherEnded
    /\ calls < MaxCalls
    /\ calls' = calls + 1
    /\ wpc' = "test"
    /\ elapsed_time' = 0
    /\ polls' = 0
    /\ lastHead' = "none"
    /\ existedAtCall' = dest[ExpectedKey].present
    /\ availAt' = IF dest[ExpectedKey].present THEN 0 ELSE -1
    /\ UNCHANGED hvars

\* line 36, and lines 49-55 when the loop is over
LoopTest ==
    /\ wpc = "test"
    /\ \/ /\ LoopCondition(elapsed_time)
          /\ wpc' = "head"
       \/ /\ ~LoopCondition(elapsed_time)
          /\ wpc' = "TimedOut"
    /\ UNCHANGED <<hvars, elapsed_time, polls, lastHead, calls, existedAtCall, availAt>>

\* lines 37-45 and 53-55: head_object and what it leads to
HeadObject ==
    /\ wpc = "head"
    /\ polls' = polls + 1
    /\ \/ /\ HeadFinds(dest)
          /\ lastHead' = "found"
       \/ /\ ~HeadFinds(dest)
          /\ lastHead' = "notfound"
       \/ lastHead' = "error"
    /\ wpc' = AfterHead(lastHead')
    /\ UNCHANGED <<hvars, elapsed_time, calls, existedAtCall, availAt>>

\* lines 46-47: time.sleep(check_interval), then the accounting
Sleep ==
    /\ wpc = "sleep"
    /\ elapsed_time' = AfterSleep(elapsed_time)
    /\ wpc' = "test"
    /\ UNCHANGED <<hvars, polls, lastHead, calls, existedAtCall, availAt>>

WatcherStep == LoopTest \/ HeadObject \/ Sleep

-----------------------------------------------------------------------------
(* Specifications *)

EmptyBucket == [k \in DestKeys |-> NoCsv]

\* the cleaning stage alone, over batches of records
Init ==
    /\ HandlerIdle(BatchTriggers)
    /\ dest = EmptyBucket
    /\ WatcherIdle
Next == HandlerNext
Spec == Init /\ [][Next]_vars

\* the cleaning stage alone, over every single record of the field values
NameValues ==
    { NameScalar(Absent), NameDict(Absent), NameDict(JStr(<<>>)), NameDict(JStr(<<" ">>)),
      NameDict(JStr(<<" ","w","A"," ","b"," ">>)), NameDict(JNum(5)), NameDict(JNull),
      NameScalar(JStr(<<" ">>)), NameScalar(JStr(<<"x"," ","y">>)), NameScalar(JNum(7)),
      NameScalar(JNull) }
PopulationValues ==
    { Absent, JNum(-1), JNum(0), JNum(1000), JStr(abc), JNull, JBool(TRUE) }
RegionValues == { Absent, JStr(africa), JStr(<<" ">>), JNum(3) }
AreaValues == { Absent, JNum(0), JNum(7) }
CapitalValues ==
    { NoList(Absent), JList(<<>>), JList(<<abc>>), NoList(JNull), NoList(JStr(abc)),
      NoList(JNum(5)) }
AllRecords ==
    { Record(nm, po, re, ar, ca) :
        nm \in NameValues, po \in PopulationValues, re \in RegionValues,
        ar \in AreaValues, ca \in CapitalValues }
    \cup { Scalar(JNum(42)), Scalar(JStr(abc)), Scalar(JNull) }
RecordTriggers ==
    FailingTriggers
    \cup { <<GoodEvent, JsonObject(Payload("num", <<>>))>> }
    \cup { <<GoodEvent, JsonObject(Payload("list", <<r>>))>> : r \in AllRecords }
RecordInit ==
    /\ HandlerIdle(RecordTriggers)
    /\ dest = EmptyBucket
    /\ WatcherIdle
RecordSpec == RecordInit /\ [][Next]_vars

\* the watcher beside one invocation of the cleaning stage; the destination
\* bucket may hold the output of an earlier run
WatchTriggers ==
    FailingTriggers
    \cup { <<GoodEvent, JsonObject(Payload("num", <<>>))>>,
           <<GoodEvent, JsonObject(Payload("list", <<Wakanda>>))>>,
           <<Event(TRUE, EncodedKey), JsonObject(Payload("list", <<Wakanda>>))>> }
WatchInit ==
    /\ HandlerIdle(WatchTriggers)
    /\ dest \in { EmptyBucket, [EmptyBucket EXCEPT ![ExpectedKey] = CsvOf(<<>>)] }
    /\ WatcherIdle
WatchNext == HandlerNext \/ WatcherCall \/ WatcherStep
\* a running watcher takes its next step: head_object returns, the sleep ends
WatchSpec == WatchInit /\ [][WatchNext]_vars /\ WF_vars(WatcherStep)

-----------------------------------------------------------------------------
(* Properties of the cleaning stage *)

Items == raw_data.items
LoopOver == pc \in {"Writing", "Succeeded"} \/ (pc \in {"Except", "Failed"} /\ Len(ops) = 2)
Kinds(items) == { Outcome(items[k]).kind : k \in 1..Len(items) }

\* C1: when the loop has finished, the number of cleaned rows plus the
\* skipped counter equals the number of input records; while it runs, the sum
\* equals the number of records visited - each is counted exactly once,
\* records whose processing raised included.
C1_CountsAddUp ==
    /\ pc = "Transforming" =>
           /\ idx \in 1..(Len(Items) + 1)
           /\ Len(cleaned_data) + skipped = idx - 1
    /\ LoopOver => Len(cleaned_data) + skipped = Len(Items)

C1_Witness ==
    /\ pc = "Writing"
    /\ Len(Items) = MaxRecords
    /\ Kinds(Items) = {"append", "skip", "except"}

NonPositivePopulation(country) ==
    /\ country.t = "dict"
    /\ \/ country.population.t = "absent"
       \/ country.population.t \in {"num", "bool"} /\ country.population.n <= 0
NameTrimsToEmpty(country) ==
    /\ country.t = "dict"
    /\ \/ country.name.t = "absent"
       \/ country.name.t = "dict" /\ country.name.common.t = "absent"
       \/ country.name.t = "dict" /\ country.name.common.t = "str"
             /\ \A k \in 1..Len(country.name.common.s) : country.name.common.s[k] = " "
       \/ country.name.t = "str" /\ \A k \in 1..Len(country.name.s) : country.name.s[k] = " "

\* C2: every row of cleaned_data has a non-empty Country and a Population
\* strictly greater than 0; a record whose population is <= 0 is skipped
\* whatever its other fields are, and so is a record whose name trims to
\* the empty string.
C2_RowsAreValid ==
    /\ \A k \in 1..Len(cleaned_data) :
           /\ cleaned_data[k].Country # <<>>
           /\ cleaned_data[k].Population.t \in {"num", "bool"}
           /\ cleaned_data[k].Population.n > 0
    /\ \A k \in 1..Len(csv_buffer.rows) :
           /\ csv_buffer.rows[k].Country # <<>>
           /\ csv_buffer.rows[k].Population.n > 0
    /\ (LoopOver /\ Len(Items) = 1
          /\ (NonPositivePopulation(Items[1]) \/ NameTrimsToEmpty(Items[1])))
       => (cleaned_data = <<>> /\ skipped = 1)

C2_Witness ==
    /\ pc = "Writing"
    /\ Len(Items) = 1
    /\ Items[1].population = JNum(0)
    /\ Items[1].name = NameScalar(JStr(<<"x"," ","y">>))
    /\ Items[1].capital = JList(<<abc>>)
    /\ skipped = 1

\* C3: if the decoded payload is not a JSON array, the stage ends in the
\* failure outcome and no put to the destination bucket is performed.
C3_NonArrayFails ==
    (raw_data.t # "list" /\ pc \notin {"Idle", "Reading"} /\ Len(ops) >= 1 /\ ops[1].ok
       /\ source[source_key].decodes)
    => /\ pc # "Succeeded"
       /\ response.statusCode # 200
       /\ \A k \in 1..Len(ops) : ops[k].op # "put"
       /\ \A k \in DestKeys : ~dest[k].present

StageOrder ==
    { <<"Idle", "Reading">>, <<"Reading", "Transforming">>, <<"Transforming", "Writing">>,
      <<"Writing", "Succeeded">>, <<"Idle", "Except">>, <<"Reading", "Except">>,
      <<"Writing", "Except">>, <<"Except", "Failed">> }
OneGetOnePut ==
    /\ Len(ops) <= 2
    /\ Len(ops) >= 1 => ops[1].op = "get"
    /\ Len(ops) = 2 =>
           /\ ops[1].ok
           /\ ops[2].op = "put"
           /\ raw_data.t \in {"list", "dict", "str"}
           /\ idx = Len(Items) + 1
           /\ pc \in {"Succeeded", "Except", "Failed"}
    /\ \A k \in 1..Len(ops) : ~ops[k].ok => (k = Len(ops) /\ pc \in {"Except", "Failed"})
    /\ (Len(ops) = 0) = (pc = "Idle" \/ pc = "Reading" \/ (pc \in {"Except", "Failed"} /\ exc = "KeyError"))
    /\ pc = "Succeeded" => (Len(ops) = 2 /\ ops[2].ok)
    /\ pc \in {"Except", "Failed"} => (exc \in Exceptions /\ ~(Len(ops) = 2 /\ ops[2].ok))

\* C8: one invocation moves through Reading, Transforming and Writing in that
\* order and ends in one terminal outcome with no retry: at most one get, at
\* most one put and only after the whole loop, and a failed get, decode or put
\* leads to the failure outcome with no further object-store call.
C8_OnePassNoRetry ==
    /\ []OneGetOnePut
    /\ [][ /\ pc' # pc => <<pc, pc'>> \in StageOrder
           /\ pc \in {"Except", "Succeeded", "Failed"} => (ops' = ops /\ dest' = dest)
           /\ pc \in {"Succeeded", "Failed"} => (pc' = pc /\ response' = response)
           /\ ops' # ops => (Len(ops') = Len(ops) + 1 /\ pc' # pc) ]_vars

C8_Witness ==
    /\ pc = "Failed"
    /\ Len(ops) = 2
    /\ ~ops[2].ok
    /\ Len(Items) = MaxRecords
    /\ dest = EmptyBucket

RECURSIVE ValidRows(_)
ValidRows(items) ==
    IF items = <<>> THEN <<>>
    ELSE (IF Outcome(Head(items)).kind = "append" THEN <<Outcome(Head(items)).row>> ELSE <<>>)
         \o ValidRows(Tail(items))
Visited == SubSeq(Items, 1, idx - 1)

\* C9: the cleaned rows are exactly the input records that pass validation,
\* in input order: every record is visited once, a malformed record (such as
\* one whose population is the string "abc") is counted as skipped and does
\* not end the loop, and the valid records after it still appear.
C9_RowsInOrder ==
    /\ pc = "Transforming" =>
           /\ cleaned_data = ValidRows(Visited)
           /\ skipped = Cardinality({ k \in 1..(idx - 1) : Outcome(Items[k]).kind # "append" })
    /\ LoopOver =>
           /\ idx = Len(Items) + 1
           /\ cleaned_data = ValidRows(Items)
           /\ skipped = Cardinality({ k \in 1..Len(Items) : Outcome(Items[k]).kind # "append" })
    /\ \A k \in 1..Len(Items) :
           (Items[k].t = "dict" /\ Items[k].population = JStr(abc))
           => Outcome(Items[k]).kind = "except"
    /\ (pc \in {"Except", "Failed"} /\ Len(ops) = 1 /\ ops[1].ok) => idx = 1

C9_Witness ==
    /\ pc = "Succeeded"
    /\ Len(Items) = 3
    /\ Items[1].population = JStr(abc)
    /\ Outcome(Items[2]).kind = "append"
    /\ Outcome(Items[3]).kind = "append"
    /\ Items[2] # Items[3]
    /\ cleaned_data = <<Outcome(Items[2]).row, Outcome(Items[3]).row>>
    /\ skipped = 1

SuccessfulPuts == { k \in 1..Len(ops) : ops[k].op = "put" /\ ops[k].ok }

\* C10: lambda_handler never raises to its caller; it ends with statusCode 200
\* or 500; 200 only if exactly one put succeeded and records_processed plus
\* records_skipped equals the number of input records; 500 only if no put
\* succeeded.
C10_OutcomeMatchesStore ==
    /\ pc # "Raised"
    /\ response.statusCode \in {0, 200, 500}
    /\ (response.statusCode = 0) = (pc \notin {"Succeeded", "Failed"})
    /\ response.statusCode = 200 =>
           /\ Cardinality(SuccessfulPuts) = 1
           /\ dest[dest_key] = CsvOf(cleaned_data)
           /\ response.records_processed + response.records_skipped = Len(Items)
    /\ response.statusCode = 500 =>
           /\ SuccessfulPuts = {}
           /\ dest = EmptyBucket

C10_Witness ==
    /\ response = Response(200, 2, 1)
    /\ Len(dest[dest_key].rows) = 2

-----------------------------------------------------------------------------
(* Properties of the completion watcher *)

\* polls of the current call that ended in the NoSuchKey handler
NotFoundPolls == IF lastHead \in {"found", "error"} THEN polls - 1 ELSE polls
\* the expected object became available during the current call, before the
\* accumulated elapsed time had reached max_wait_time
AvailableInTime == availAt >= 0 /\ availAt < max_wait_time

\* C4: if the expected object becomes available while the watcher is still
\* running, before its accumulated elapsed time has reached max_wait, the
\* watcher returns Completed, no later than one poll interval afterwards; it
\* returns TimedOut only when the object never appeared within max_wait.
C4_CompletedWhenAvailable ==
    /\ wpc = "TimedOut" => ~AvailableInTime
    /\ (AvailableInTime /\ (WatcherRunning \/ wpc = "Completed"))
       => elapsed_time <= availAt + check_interval

WatcherAccounting ==
    /\ elapsed_time = check_interval * (IF wpc = "sleep" THEN NotFoundPolls - 1 ELSE NotFoundPolls)
    /\ wpc = "head" => elapsed_time < max_wait_time
    /\ polls > 0 => (polls - 1) * check_interval < max_wait_time
    /\ polls <= 30
    /\ wpc = "TimedOut" =>
           /\ elapsed_time >= max_wait_time
           /\ lastHead = "notfound"
           /\ polls = 30
    /\ (WatcherEnded /\ lastHead # "error" /\ ~dest[ExpectedKey].present) => wpc = "TimedOut"

\* C5: when the expected object never appears, the watcher terminates with
\* the timeout: elapsed time grows by check_interval per unsuccessful poll, no
\* poll is issued once it has reached max_wait_time, and there are at most
\* ceil(max_wait_time / check_interval) = 30 polls.
C5_TimesOut ==
    /\ []WatcherAccounting
    /\ WatcherRunning ~> WatcherEnded

C5_Witness ==
    /\ wpc = "TimedOut"
    /\ polls = 30
    /\ elapsed_time = 300
    /\ ~dest[ExpectedKey].present

SameCall == calls' = calls
Polled == SameCall /\ polls' = polls + 1

\* C6 as stated: a poll that fails with 'not found' leads to a sleep and
\* another poll; a poll that fails with any other storage error ends the
\* watcher at once with that error.
C6_NotFoundPollsAgain ==
    [][ /\ (Polled /\ lastHead' = "notfound") => wpc' = "sleep"
        /\ (SameCall /\ wpc = "sleep" /\ wpc' # wpc) => wpc' = "test"
        /\ (SameCall /\ wpc = "test" /\ lastHead = "notfound" /\ wpc' # wpc) => wpc' = "head"
        /\ (Polled /\ lastHead' = "error") => wpc' = "Error" ]_vars

\* C6, amended: a poll that fails with 'not found' leads to a sleep, and then
\* to another poll if the accumulated elapsed time is still below
\* max_wait_time (to the timeout otherwise); a poll that fails with any other
\* storage error ends the watcher at once with that error: no sleep, no
\* further poll, neither Completed nor TimedOut.
C6_NotFoundSleepsErrorEnds ==
    /\ [][ /\ (Polled /\ lastHead' = "notfound") => (wpc' = "sleep" /\ elapsed_time' = elapsed_time)
           /\ (SameCall /\ wpc = "sleep" /\ wpc' # wpc) =>
                  (wpc' = "test" /\ elapsed_time' = elapsed_time + check_interval)
           /\ (SameCall /\ wpc = "test" /\ lastHead = "notfound" /\ wpc' # wpc) =>
                  wpc' = (IF elapsed_time < max_wait_time THEN "head" ELSE "TimedOut")
           /\ (Polled /\ lastHead' = "error") => (wpc' = "Error" /\ elapsed_time' = elapsed_time)
           /\ (SameCall /\ wpc = "Error") => UNCHANGED <<wpc, polls, elapsed_time, lastHead>> ]_vars
    /\ [](wpc = "Error" <=> (WatcherEnded /\ lastHead = "error"))
    /\ [](wpc = "sleep" => lastHead = "notfound")

C6_Witness ==
    /\ wpc = "Error"
    /\ polls = 2
    /\ elapsed_time = check_interval
    /\ ~dest[ExpectedKey].present

\* C7: once the expected object exists, every call of the watcher returns
\* Completed on its first poll without sleeping (head_object answering), and
\* the call only reads: it leaves both buckets unchanged, so a second call
\* behaves as the first.
C7_IdempotentAfterCompletion ==
    /\ []((existedAtCall /\ WatcherEnded /\ lastHead # "error")
            => (wpc = "Completed" /\ polls = 1 /\ elapsed_time = 0))
    /\ []((existedAtCall /\ WatcherRunning)
            => (wpc # "sleep" /\ polls = 0 /\ elapsed_time = 0))
    /\ [][ <<wpc, elapsed_time, polls, lastHead, calls>>' # <<wpc, elapsed_time, polls, lastHead, calls>>
           => (dest' = dest /\ source' = source) ]_vars
    /\ [][ dest[ExpectedKey].present => dest'[ExpectedKey].present ]_vars

C7_Witness ==
    /\ calls = 2
    /\ existedAtCall
    /\ wpc = "Completed"
    /\ polls = 1
    /\ pc = "Succeeded"
    /\ dest_key = ExpectedKey

====
